---- MODULE Spec2Model ----
(***************************************************************************)
(* Upstream adapter and resilience layer of ExplorerToken:                 *)
(*   - the Etherscan client (services/etherscanClient.ts),                 *)
(*   - the dual-backend cache (services/cache.ts, services/redis.ts),      *)
(*   - the token-bucket rate limiter (middleware/rateLimiters.ts).         *)
(* Each component has its own specification over the shared variables.     *)
(* Floating-point token arithmetic is modelled exactly, in units of        *)
(* 1/WINDOW_MS of a token; the clock is Date.now() in milliseconds.        *)
(***************************************************************************)
EXTENDS Integers, Sequences, FiniteSets, TLC

VARIABLES
    \* ---- Etherscan client ----
    pc,         \* position of the client invocation under way
    upcalls,    \* upstream calls issued by this invocation, in order (axios.get)
    sub,        \* getTxDetails: state of the three sub-requests of Promise.all
    outcome,    \* what the invocation returned or threw
    \* ---- cache ----
    redisUrl,       \* env.REDIS_URL is configured
    redisAvailable, \* cache.ts: let redisAvailable
    isConnected,    \* redis.ts: let isConnected (and redisClient # null)
    redisHealthy,   \* environment: does the external store answer calls now
    redisStore,     \* contents of the external store: key -> entry
    redisQueue,     \* commands sent on the one connection and not yet answered, oldest first
    nodeCache,      \* contents of the in-process NodeCache: key -> entry
    cops,           \* cache operations in flight: process -> record
    lastDone,       \* observer: last completed set/del/flushAll per key
    lastRet,        \* observer: the cache call that returned last, and what it returned
    \* ---- rate limiter ----
    buckets,    \* const buckets = new Map<string, TokenBucket>()
    resp,       \* observer: last response of the limiter per identity
    burst,      \* observer: length of the run of same-instant requests that began on a full bucket
    waited,     \* observer: requests made since that run emptied the bucket and 1/R seconds went by
    run,        \* observer: the requests of one identity made at one instant: tokens at its start, requests, admitted
    kept,       \* observer: the buckets and decisions of the same limiter had no bucket ever been removed
    win,        \* observer: the admitted requests of one identity since an arbitrarily chosen instant
    \* ---- explorer routes ----
    reqs,       \* requests being handled by the explorer router: handler -> record
    \* ---- shared ----
    ticks,      \* number of clock advances so far
    now         \* Date.now(), milliseconds

clientVars  == <<pc, upcalls, sub, outcome>>
cacheVars   == <<redisUrl, redisAvailable, isConnected, redisHealthy, redisStore, redisQueue,
                 nodeCache, cops, lastDone, lastRet>>
limiterVars == <<buckets, resp, burst, waited, run, kept, win>>
vars == <<pc, upcalls, sub, outcome,
          redisUrl, redisAvailable, isConnected, redisHealthy, redisStore, redisQueue,
          nodeCache, cops, lastDone, lastRet,
          buckets, resp, burst, waited, run, kept, win, reqs, ticks, now>>

(***************************************************************************)
(* Strings that the code parses are sequences of characters.               *)
(***************************************************************************)
HexDigits == <<"0","1","2","3","4","5","6","7","8","9","a","b","c","d","e","f">>

RECURSIVE DigitValueFrom(_, _)
DigitValueFrom(c, i) ==
    IF i > Len(HexDigits) THEN -1
    ELSE IF HexDigits[i] = c THEN i - 1
    ELSE DigitValueFrom(c, i + 1)

\* value of a character as a digit, -1 when it is none
DigitValue(c) == DigitValueFrom(c, 1)

RECURSIVE ParseDigits(_, _, _, _)
\* longest prefix of digits of the radix, as parseInt reads it
ParseDigits(s, radix, acc, seen) ==
    IF s = <<>> THEN [nan |-> ~seen, n |-> acc]
    ELSE LET d == DigitValue(Head(s)) IN
         IF d < 0 \/ d >= radix THEN [nan |-> ~seen, n |-> acc]
         ELSE ParseDigits(Tail(s), radix, acc * radix + d, TRUE)

\* parseInt(s, radix) for radix 10 and 16 (no sign, no white space in the inputs)
ParseInt(s, radix) ==
    IF radix = 16 /\ Len(s) >= 2 /\ s[1] = "0" /\ s[2] = "x"
    THEN ParseDigits(SubSeq(s, 3, Len(s)), radix, 0, FALSE)
    ELSE ParseDigits(s, radix, 0, FALSE)

\* /^\d+$/
Numeric(s) == s # <<>> /\ \A i \in 1..Len(s) : DigitValue(s[i]) \in 0..9

RECURSIVE DecimalValue(_)
\* the number that a string of decimal digits denotes
DecimalValue(s) ==
    IF s = <<>> THEN 0
    ELSE 10 * DecimalValue(SubSeq(s, 1, Len(s) - 1)) + DigitValue(s[Len(s)])

\* Number(s) for the strings of digits and letters: the empty string is 0, a string
\* of digits its value, anything else NaN
NumberOf(s) ==
    IF s = <<>> THEN [nan |-> FALSE, n |-> 0]
    ELSE IF Numeric(s) THEN [nan |-> FALSE, n |-> DecimalValue(s)]
    ELSE [nan |-> TRUE, n |-> 0]

RECURSIVE NumberToString(_)
\* `${n}` for a natural number
NumberToString(n) ==
    IF n < 10 THEN <<HexDigits[n + 1]>>
    ELSE NumberToString(n \div 10) \o <<HexDigits[(n % 10) + 1]>>

(***************************************************************************)
(* Upstream responses                                                      *)
(***************************************************************************)
NO_ERROR_MESSAGES == {"No records found", "No transactions found"}

NoItems == <<>>

\* a value of the envelope's result field
Res(type, tag, items, str, bnNull, bn, isError) ==
    [type |-> type, tag |-> tag, items |-> items, str |-> str,
     bnNull |-> bnNull, bn |-> bn, isError |-> isError]

ResArray(items)   == Res("array", "", items, "", FALSE, <<>>, "")
ResString(s)      == Res("string", "", NoItems, s, FALSE, <<>>, "")
ResNull           == Res("null", "", NoItems, "", FALSE, <<>>, "")
ResTx(bnNull, bn) == Res("object", "tx", NoItems, "", bnNull, bn, "")
ResReceipt        == Res("object", "receipt", NoItems, "", FALSE, <<>>, "")
ResStatus(e)      == Res("object", "status", NoItems, "", FALSE, <<>>, e)

\* HTTP response with a JSON body
Http(code, envelopeOk, status, message, result) ==
    [kind |-> "http", code |-> code, envelopeOk |-> envelopeOk,
     status |-> status, message |-> message, result |-> result]

\* no response at all (connection refused, timeout, DNS)
NetworkFailure ==
    [kind |-> "network", code |-> 0, envelopeOk |-> FALSE,
     status |-> "", message |-> "", result |-> ResNull]

Ok(data)      == [ok |-> TRUE, data |-> data, name |-> "", message |-> "", detail |-> ""]
Err(msg, det) == [ok |-> FALSE, data |-> ResNull, name |-> "EtherscanError",
                  message |-> msg, detail |-> det]

\* zod schemas of the result field
SchemaValid(schema, r) ==
    CASE schema = "TopHolders"      -> r.type = "array"
      [] schema = "Transaction"     -> r.type = "object" /\ r.tag = "tx"
      [] schema = "ReceiptNullable" -> r.type = "null" \/ r.type = "object"
      [] schema = "TxStatus"        -> r.type = "object" /\ r.tag = "status"
      [] schema = "String"          -> r.type = "string"
      [] schema = "Transfers"       -> r.type = "array"
      [] OTHER                      -> FALSE

\* makeRequest with the result validated before the status is looked at
makeRequestSchemaFirst(rsp, schema) ==
    IF rsp.kind = "network" THEN Err("Network error", "no response")
    ELSE IF rsp.code < 200 \/ rsp.code > 299 THEN Err("Network error", ToString(rsp.code))
    ELSE IF ~rsp.envelopeOk THEN Err("Invalid response format from Etherscan API", "")
    ELSE IF ~SchemaValid(schema, rsp.result)
         THEN Err("Invalid result format from Etherscan API", "")
    ELSE IF rsp.status = "0" /\ rsp.message \notin NO_ERROR_MESSAGES
         THEN Err("Etherscan API error", rsp.message)
    ELSE Ok(rsp.result)

\* makeRequest: axios.get (which rejects on a status outside 2xx, reported as a
\* network error), then envelope, status and result validation; every failure is an
\* EtherscanError. The last catch branch ('Unexpected error') needs a throw that is
\* neither of these and has no input that reaches it.
makeRequest(rsp, schema) ==
    IF rsp.kind = "network" THEN Err("Network error", "no response")
    ELSE IF rsp.code < 200 \/ rsp.code > 299 THEN Err("Network error", ToString(rsp.code))
    ELSE IF ~rsp.envelopeOk THEN Err("Invalid response format from Etherscan API", "")
    ELSE IF rsp.status = "0" /\ rsp.message \notin NO_ERROR_MESSAGES
         THEN Err("Etherscan API error", rsp.message)
    ELSE IF ~SchemaValid(schema, rsp.result)
         THEN Err("Invalid result format from Etherscan API", "")
    ELSE Ok(rsp.result)

(***************************************************************************)
(* Etherscan client: getTopTokenHolders and getTxDetails                   *)
(***************************************************************************)
HolderA == [TokenHolderAddress |-> "0xaaa", TokenHolderQuantity |-> "500",
            hasShare |-> TRUE, Share |-> "50.5"]
HolderB == [TokenHolderAddress |-> "0xbbb", TokenHolderQuantity |-> "300",
            hasShare |-> FALSE, Share |-> ""]

PlanMessage == "This feature is not available for your plan"

\* what the upstream may answer to a holders request
HolderResponses ==
    { Http(200, TRUE, "1", "OK", ResArray(<<HolderA, HolderB>>)),
      Http(200, TRUE, "1", "OK", ResArray(<<HolderB>>)),
      Http(200, TRUE, "0", "No records found", ResArray(<<>>)),
      Http(200, TRUE, "0", "Invalid action", ResArray(<<>>)),
      Http(200, TRUE, "0", "NOTOK", ResString(PlanMessage)),
      Http(200, TRUE, "0", "Invalid API Key", ResArray(<<>>)),
      Http(200, TRUE, "1", "OK", ResString("garbage")),
      Http(200, FALSE, "", "", ResNull),
      Http(402, TRUE, "0", "Payment Required", ResArray(<<>>)),
      Http(403, TRUE, "0", "Forbidden", ResArray(<<>>)),
      Http(404, TRUE, "0", "Not Found", ResArray(<<>>)),
      Http(500, FALSE, "", "", ResNull),
      NetworkFailure }

\* holder.Share ? parseFloat(holder.Share) : undefined
Percent(h) ==
    IF h.hasShare /\ h.Share # ""
    THEN [defined |-> TRUE, parseFloatOf |-> h.Share]
    ELSE [defined |-> FALSE, parseFloatOf |-> ""]

\* result.map((holder) => ({address, balanceRaw, percent}))
NormalizeHolders(items) ==
    [i \in 1..Len(items) |->
        [address |-> items[i].TokenHolderAddress,
         balanceRaw |-> items[i].TokenHolderQuantity,
         percent |-> Percent(items[i])]]

NoOutcome      == [kind |-> "none"]
Returned(v)    == [kind |-> "value", value |-> v]
Threw(r)       == [kind |-> "error", name |-> r.name, message |-> r.message, detail |-> r.detail]

\* axios.get(url, { params }): no timeout option is passed, and the default of axios,
\* 0, means that the request is never abandoned
DefaultTimeout == 0

\* an upstream request as makeRequest issues it
Call(module, action) == [module |-> module, action |-> action, timeout |-> DefaultTimeout,
                         answered |-> FALSE, rsp |-> NetworkFailure]
Answer(c, rsp) == [c EXCEPT !.answered = TRUE, !.rsp = rsp]

NoSub == [i \in 1..3 |-> [state |-> "none", r |-> Ok(ResNull)]]

\* getTopTokenHolders up to its await: one request, action topholders
getTopTokenHolders_Call ==
    /\ pc = "idle"
    /\ pc' = "holders_wait"
    /\ upcalls' = <<Call("token", "topholders")>>
    /\ outcome' = NoOutcome
    /\ UNCHANGED <<sub, cacheVars, limiterVars, reqs, ticks, now>>

\* getTopTokenHolders_Return with a retry on whatever failure
getTopTokenHolders_ReturnRetrying(rsp) ==
    /\ pc = "holders_wait"
    /\ LET r == makeRequest(rsp, "TopHolders") IN
         IF ~r.ok /\ Len(upcalls) = 1
         THEN /\ upcalls' = Append([upcalls EXCEPT ![1] = Answer(@, rsp)], Call("token", "topholders"))
              /\ UNCHANGED <<pc, outcome>>
         ELSE /\ upcalls' = [upcalls EXCEPT ![Len(upcalls)] = Answer(@, rsp)]
              /\ outcome' = IF r.ok THEN Returned(NormalizeHolders(r.data.items)) ELSE Threw(r)
              /\ pc' = "holders_done"
    /\ UNCHANGED <<sub, cacheVars, limiterVars, reqs, ticks, now>>

\* the rest of getTopTokenHolders, once the request made last is answered
getTopTokenHolders_Return(rsp) ==
    /\ pc = "holders_wait"
    /\ LET r == makeRequest(rsp, "TopHolders") IN
         /\ upcalls' = [upcalls EXCEPT ![Len(upcalls)] = Answer(@, rsp)]
         /\ outcome' = IF r.ok THEN Returned(NormalizeHolders(r.data.items)) ELSE Threw(r)
         /\ pc' = "holders_done"
    /\ UNCHANGED <<sub, cacheVars, limiterVars, reqs, ticks, now>>

\* failures of any request
FailureResponses ==
    { Http(200, TRUE, "0", "NOTOK", ResString("Error! Missing or invalid")),
      Http(200, FALSE, "", "", ResNull),
      Http(404, TRUE, "0", "Not Found", ResNull),
      NetworkFailure }

\* decimal strings the upstream may report in a transfer record
DecimalStrings == { <<"1","2","3">>, <<"0">>, <<"a","b","c">>, <<"1","2","a">>, <<>> }

\* a record of the tokentx result; tokenDecimal is optional
Transfer(bn, hasDec, dec) ==
    [hash |-> "0xhash", blockNumber |-> bn, timeStamp |-> <<"1","7">>,
     from |-> "0xfrom", to |-> "0xto", contractAddress |-> "0xtoken", value |-> "1000",
     hasTokenDecimal |-> hasDec, tokenDecimal |-> dec]

TransferRecords ==
    { Transfer(bn, FALSE, <<>>) : bn \in DecimalStrings }
    \cup { Transfer(<<"1","2","3">>, TRUE, d) : d \in {<<"1","8">>, <<>>} }

\* what the upstream may answer to a transfers request
TransferResponses ==
    { Http(200, TRUE, "1", "OK", ResArray(<<t>>)) : t \in TransferRecords }
    \cup { Http(200, TRUE, "1", "OK", ResArray(<<Transfer(<<"1","2","3">>, FALSE, <<>>), t>>)) :
              t \in TransferRecords }
    \cup { Http(200, TRUE, "0", "No transactions found", ResArray(<<>>)),
           Http(200, TRUE, "0", "No transactions found", ResNull),
           Http(200, TRUE, "1", "OK", ResString("garbage")) }
    \cup FailureResponses

\* tx.tokenDecimal ? parseInt(tx.tokenDecimal, 10) : undefined
NormalizeDecimal(t) ==
    IF t.hasTokenDecimal /\ t.tokenDecimal # <<>>
    THEN [defined |-> TRUE, nan |-> ParseInt(t.tokenDecimal, 10).nan,
          n |-> ParseInt(t.tokenDecimal, 10).n]
    ELSE [defined |-> FALSE, nan |-> FALSE, n |-> 0]

\* result.map((tx) => ({hash, blockNumber: parseInt(tx.blockNumber, 10), ...}))
NormalizeTransfers(items) ==
    [i \in 1..Len(items) |->
        [hash |-> items[i].hash,
         blockNumber |-> ParseInt(items[i].blockNumber, 10),
         timeStamp |-> ParseInt(items[i].timeStamp, 10),
         from |-> items[i].from, to |-> items[i].to,
         contractAddress |-> items[i].contractAddress,
         valueRaw |-> items[i].value,
         tokenDecimal |-> NormalizeDecimal(items[i])]]

\* getTokenTransfers up to its await: one request, account / tokentx
getTokenTransfers_Call ==
    /\ pc = "idle"
    /\ pc' = "transfers_wait"
    /\ upcalls' = <<Call("account", "tokentx")>>
    /\ outcome' = NoOutcome
    /\ UNCHANGED <<sub, cacheVars, limiterVars, reqs, ticks, now>>

\* getTokenTransfers_Return with the request made again after a failure
getTokenTransfers_ReturnRetrying(rsp) ==
    /\ pc = "transfers_wait"
    /\ LET r == makeRequest(rsp, "Transfers") IN
         IF ~r.ok /\ Len(upcalls) = 1
         THEN /\ upcalls' = Append([upcalls EXCEPT ![1] = Answer(@, rsp)], Call("account", "tokentx"))
              /\ UNCHANGED <<pc, outcome>>
         ELSE /\ upcalls' = [upcalls EXCEPT ![Len(upcalls)] = Answer(@, rsp)]
              /\ outcome' = IF r.ok THEN Returned(NormalizeTransfers(r.data.items)) ELSE Threw(r)
              /\ pc' = "transfers_done"
    /\ UNCHANGED <<sub, cacheVars, limiterVars, reqs, ticks, now>>

\* the rest of getTokenTransfers, once the request is answered
getTokenTransfers_Return(rsp) ==
    /\ pc = "transfers_wait"
    /\ LET r == makeRequest(rsp, "Transfers") IN
         /\ upcalls' = [upcalls EXCEPT ![Len(upcalls)] = Answer(@, rsp)]
         /\ outcome' = IF r.ok THEN Returned(NormalizeTransfers(r.data.items)) ELSE Threw(r)
         /\ pc' = "transfers_done"
    /\ UNCHANGED <<sub, cacheVars, limiterVars, reqs, ticks, now>>

\* what the upstream may answer to a token supply request
SupplyResponses ==
    { Http(200, TRUE, "1", "OK", ResString("1000000")),
      Http(200, TRUE, "1", "OK", ResArray(<<>>)),
      Http(200, TRUE, "0", "NOTOK", ResString("Error! Invalid contract address")),
      Http(500, FALSE, "", "", ResNull) }
    \cup FailureResponses

\* the NormalizedTokenInfo: name, symbol and decimals are always undefined
TokenInfo(hasSupply, supply) ==
    [contractAddress |-> "0xtoken", hasTotalSupplyRaw |-> hasSupply, totalSupplyRaw |-> supply,
     name |-> "undefined", symbol |-> "undefined", decimals |-> "undefined"]

\* getTokenInfo up to its await: one request, stats / tokensupply
getTokenInfo_Call ==
    /\ pc = "idle"
    /\ pc' = "info_wait"
    /\ upcalls' = <<Call("stats", "tokensupply")>>
    /\ outcome' = NoOutcome
    /\ UNCHANGED <<sub, cacheVars, limiterVars, reqs, ticks, now>>

\* getTokenInfo_Return without the try / catch around the supply request
getTokenInfo_ReturnRethrowing(rsp) ==
    /\ pc = "info_wait"
    /\ LET r == makeRequest(rsp, "String") IN
         /\ upcalls' = [upcalls EXCEPT ![Len(upcalls)] = Answer(@, rsp)]
         /\ outcome' = IF r.ok THEN Returned(TokenInfo(TRUE, r.data.str)) ELSE Threw(r)
         /\ pc' = "info_done"
    /\ UNCHANGED <<sub, cacheVars, limiterVars, reqs, ticks, now>>

\* the rest of getTokenInfo: a failure of the supply request is caught
getTokenInfo_Return(rsp) ==
    /\ pc = "info_wait"
    /\ LET r == makeRequest(rsp, "String") IN
         /\ upcalls' = [upcalls EXCEPT ![Len(upcalls)] = Answer(@, rsp)]
         /\ outcome' = IF r.ok THEN Returned(TokenInfo(TRUE, r.data.str))
                       ELSE Returned(TokenInfo(FALSE, ""))
         /\ pc' = "info_done"
    /\ UNCHANGED <<sub, cacheVars, limiterVars, reqs, ticks, now>>

\* block numbers the upstream may report (hex strings)
BlockNumbers == { <<"0","x","1","0">>, <<>> }

\* isError values the upstream may report
IsErrorValues == {"0", "1", "2"}

\* what the upstream may answer to the i-th request of getTxDetails
TxResponses(i) ==
    CASE i = 1 -> { Http(200, TRUE, "1", "OK", ResTx(TRUE, <<>>)) }
                  \cup { Http(200, TRUE, "1", "OK", ResTx(FALSE, b)) : b \in BlockNumbers }
                  \cup { Http(200, TRUE, "1", "OK", ResNull) }
                  \cup FailureResponses
      [] i = 2 -> { Http(200, TRUE, "1", "OK", ResNull),
                    Http(200, TRUE, "1", "OK", ResReceipt),
                    Http(200, TRUE, "1", "OK", ResString("garbage")) }
                  \cup FailureResponses
      [] i = 3 -> { Http(200, TRUE, "1", "OK", ResStatus(e)) : e \in IsErrorValues }
                  \cup { Http(200, TRUE, "1", "OK", ResReceipt) }
                  \cup FailureResponses

TxSchema(i) ==
    CASE i = 1 -> "Transaction" [] i = 2 -> "ReceiptNullable" [] i = 3 -> "TxStatus"

TxCalls == << Call("proxy", "eth_getTransactionByHash"),
              Call("proxy", "eth_getTransactionReceipt"),
              Call("transaction", "getstatus") >>

\* deriveStatus with the execution status looked at before the block number
deriveStatusErrorFirst(txData, statusData) ==
    IF statusData.isError = "0" THEN "success"
    ELSE IF statusData.isError = "1" THEN "fail"
    ELSE IF txData.bnNull THEN "pending"
    ELSE "undefined"

\* the status rule of getTxDetails
deriveStatus(txData, statusData) ==
    IF txData.bnNull THEN "pending"
    ELSE IF statusData.isError = "0" THEN "success"
    ELSE IF statusData.isError = "1" THEN "fail"
    ELSE "undefined"

\* txData.blockNumber ? parseInt(txData.blockNumber, 16) : null
NormalizeBlockNumber(txData) ==
    IF txData.bnNull \/ txData.bn = <<>>
    THEN [isNull |-> TRUE, nan |-> FALSE, n |-> 0]
    ELSE [isNull |-> FALSE, nan |-> ParseInt(txData.bn, 16).nan, n |-> ParseInt(txData.bn, 16).n]

\* the NormalizedTx built from the three results
NormalizeTx(txData, receiptData, statusData) ==
    [hash |-> "0xtxhash",
     blockNumber |-> NormalizeBlockNumber(txData),
     status |-> deriveStatus(txData, statusData),
     hasReceipt |-> receiptData.type # "null"]

\* PromiseAll that waits for every request to settle and never rejects
PromiseAllSettled(s) ==
    IF \A i \in 1..3 : s[i].state \in {"ok", "err"} THEN "fulfilled" ELSE "pending"

\* Promise.all over the three requests: rejected as soon as one is, fulfilled when all are
PromiseAll(s) ==
    IF \E i \in 1..3 : s[i].state = "err" THEN "rejected"
    ELSE IF \A i \in 1..3 : s[i].state = "ok" THEN "fulfilled"
    ELSE "pending"

\* getTxDetails up to its await: the three requests are issued together
getTxDetails_Call ==
    /\ pc = "idle"
    /\ pc' = "tx_wait"
    /\ upcalls' = TxCalls
    /\ sub' = [i \in 1..3 |-> [state |-> "pending", r |-> Ok(ResNull)]]
    /\ outcome' = NoOutcome
    /\ UNCHANGED <<cacheVars, limiterVars, reqs, ticks, now>>

\* one of the three requests is answered; the join settles when Promise.all does
getTxDetails_SubReturn(i, rsp) ==
    /\ pc \in {"tx_wait", "tx_done"}
    /\ sub[i].state = "pending"
    /\ LET r  == makeRequest(rsp, TxSchema(i))
           s2 == [sub EXCEPT ![i] = [state |-> IF r.ok THEN "ok" ELSE "err", r |-> r]]
       IN /\ sub' = s2
          /\ upcalls' = [upcalls EXCEPT ![i] = Answer(@, rsp)]
          /\ IF pc = "tx_done" THEN UNCHANGED <<pc, outcome>>
             ELSE CASE PromiseAll(s2) = "rejected"  ->
                         /\ outcome' = Threw(r)
                         /\ pc' = "tx_done"
                    [] PromiseAll(s2) = "fulfilled" ->
                         /\ outcome' = Returned(NormalizeTx(s2[1].r.data, s2[2].r.data, s2[3].r.data))
                         /\ pc' = "tx_done"
                    [] OTHER -> UNCHANGED <<pc, outcome>>
    /\ UNCHANGED <<cacheVars, limiterVars, reqs, ticks, now>>

\* the invocation is over and no request of it is in flight: the next one may start
ClientReset ==
    /\ pc \in {"holders_done", "tx_done", "transfers_done", "info_done"}
    /\ \A i \in 1..3 : sub[i].state # "pending"
    /\ pc' = "idle"
    /\ upcalls' = <<>>
    /\ sub' = NoSub
    /\ outcome' = NoOutcome
    /\ UNCHANGED <<cacheVars, limiterVars, reqs, ticks, now>>

(***************************************************************************)
(* Cache: cache.ts over redis.ts and NodeCache                             *)
(***************************************************************************)
Keys  == {"k1"}
Procs == {"p1", "p2"}

\* cached values: objects, one of which has a property set to undefined
Values == { [data |-> "a", opt |-> "undefined"], [data |-> "b", opt |-> "x"] }

CACHE_DEFAULT_TTL == 60

\* an omitted ttlSec argument
Undefined == -1

\* TTLs a caller passes, in seconds
TTLs == {Undefined, 1}

\* JSON.stringify drops the properties whose value is undefined
JSONstringify(v) ==
    [data |-> v.data, hasOpt |-> v.opt # "undefined",
     opt |-> IF v.opt = "undefined" THEN "" ELSE v.opt]

\* JSON.parse: a dropped property is missing from the object
JSONparse(s) == [data |-> s.data, opt |-> IF s.hasOpt THEN s.opt ELSE "missing"]

\* equality of objects up to properties that are undefined (toEqual, res.json)
SameValue(a, b) ==
    /\ a.data = b.data
    /\ (IF a.opt \in {"undefined", "missing"} THEN "none" ELSE a.opt)
         = (IF b.opt \in {"undefined", "missing"} THEN "none" ELSE b.opt)

NullValue == [data |-> "", opt |-> ""]
Null == [isNull |-> TRUE, val |-> NullValue]
NonNull(v) == [isNull |-> FALSE, val |-> v]

NoEntry == [present |-> FALSE, val |-> NullValue, exp |-> 0]
Entry(v, exp) == [present |-> TRUE, val |-> v, exp |-> exp]

\* the external store drops a key once its TTL has elapsed
RedisLive(e) == e.present /\ now < e.exp

\* NodeCache: an entry is expired when its time is before Date.now()
NodeLive(e) == e.present /\ ~(e.exp < now)

\* the calls of the redis client; each throws when the store does not answer
clientGet(k) ==
    IF redisHealthy
    THEN [threw |-> FALSE, isNull |-> ~RedisLive(redisStore[k]), value |-> redisStore[k].val]
    ELSE [threw |-> TRUE, isNull |-> TRUE, value |-> NullValue]

\* redis.ts get: null when not connected or when the client throws
redis_get(k) ==
    IF ~isConnected THEN [threw |-> FALSE, isNull |-> TRUE, value |-> NullValue]
    ELSE IF clientGet(k).threw THEN [threw |-> FALSE, isNull |-> TRUE, value |-> NullValue]
    ELSE clientGet(k)

\* redis.ts setEx, del and flushAll: the store after the call; unchanged when
\* not connected or when the client throws (the wrapper returns false)
redis_setEx(k, ttl, value) ==
    IF isConnected /\ redisHealthy
    THEN [redisStore EXCEPT ![k] = Entry(value, now + ttl * 1000)]
    ELSE redisStore

redis_del(k) ==
    IF isConnected /\ redisHealthy THEN [redisStore EXCEPT ![k] = NoEntry] ELSE redisStore

redis_flushAll ==
    IF isConnected /\ redisHealthy THEN [k \in DOMAIN redisStore |-> NoEntry] ELSE redisStore

\* const ttl = ttlSec ?? env.CACHE_DEFAULT_TTL
EffectiveTtl(ttlSec) == IF ttlSec = Undefined THEN CACHE_DEFAULT_TTL ELSE ttlSec

NoneDone == [kind |-> "none", val |-> NullValue, exp |-> 0]

IdleOp == [op |-> "none", pc |-> "idle", key |-> "", val |-> NullValue, ttl |-> 0,
           threw |-> FALSE, result |-> Null, quiet |-> FALSE, viaRedis |-> FALSE,
           extDown |-> FALSE, after |-> NoneDone, at |-> 0]

Mutating(o) == o.op \in {"set", "del", "flushAll"} /\ o.pc = "redis"
Affects(o, k) == o.op = "flushAll" \/ o.key = k

\* const value = nodeCache.get<T>(key); return value ?? null
nodeCache_get(k) == IF NodeLive(nodeCache[k]) THEN NonNull(nodeCache[k].val) ELSE Null

\* cache_get_result without the fall through to the local store
cache_get_resultRedisOnly(k, viaRedis) ==
    IF viaRedis
    THEN IF ~redis_get(k).threw /\ ~redis_get(k).isNull
         THEN NonNull(JSONparse(redis_get(k).value)) ELSE Null
    ELSE nodeCache_get(k)

\* cache_get_result with the local store looked at first
cache_get_resultLocalFirst(k, viaRedis) ==
    IF ~nodeCache_get(k).isNull THEN nodeCache_get(k)
    ELSE IF viaRedis /\ ~redis_get(k).threw /\ ~redis_get(k).isNull
         THEN NonNull(JSONparse(redis_get(k).value))
    ELSE Null

\* cache.get: the external store first when redisAvailable, then the local store
cache_get_result(k, viaRedis) ==
    IF viaRedis /\ ~redis_get(k).threw /\ ~redis_get(k).isNull
    THEN NonNull(JSONparse(redis_get(k).value))
    ELSE nodeCache_get(k)

\* the external store after the operation o
RedisAfter(o) ==
    CASE o.op = "set"      -> redis_setEx(o.key, o.ttl, JSONstringify(o.val))
      [] o.op = "del"      -> redis_del(o.key)
      [] o.op = "flushAll" -> redis_flushAll
      [] OTHER             -> redisStore

\* the local store after the operation o; a read drops an expired entry
NodeAfter(o) ==
    CASE o.op = "set"      -> [nodeCache EXCEPT ![o.key] = Entry(o.val, now + o.ttl * 1000)]
      [] o.op = "del"      -> [nodeCache EXCEPT ![o.key] = NoEntry]
      [] o.op = "flushAll" -> [k \in DOMAIN nodeCache |-> NoEntry]
      [] OTHER             -> [nodeCache EXCEPT ![o.key] =
                                  IF NodeLive(@) \/ (o.viaRedis /\ ~redis_get(o.key).isNull)
                                  THEN @ ELSE NoEntry]

\* what the operation o leaves as the last completed write of each key
DoneAfter(o) ==
    CASE o.op = "set"      -> [lastDone EXCEPT ![o.key] =
                                  [kind |-> "set", val |-> o.val, exp |-> now + o.ttl * 1000]]
      [] o.op = "del"      -> [lastDone EXCEPT ![o.key] = [kind |-> "del", val |-> NullValue, exp |-> 0]]
      [] o.op = "flushAll" -> [k \in DOMAIN lastDone |->
                                  [kind |-> "del", val |-> NullValue, exp |-> 0]]
      [] OTHER             -> lastDone

\* a write of key k has started: the reads of k in flight are no longer undisturbed
Disturb(c, o) ==
    [q \in Procs |->
        IF o.op # "get" /\ c[q].op = "get" /\ c[q].pc = "redis" /\ Affects(o, c[q].key)
        THEN [c[q] EXCEPT !.quiet = FALSE] ELSE c[q]]

\* the record of a finished call: its result (every error of the external store is
\* caught in redis.ts, and again in cache.ts, so nothing is thrown); for a read, whether
\* it ran undisturbed, whether the external store was of no use to it, and the last
\* completed write of its key at that time
Finished(o) ==
    [IdleOp EXCEPT !.op = o.op, !.pc = "done", !.key = o.key, !.quiet = o.quiet,
                   !.viaRedis = o.viaRedis, !.threw = FALSE,
                   !.result = IF o.op = "get" THEN cache_get_result(o.key, o.viaRedis) ELSE Null,
                   !.extDown = ~o.viaRedis \/ ~isConnected \/ ~redisHealthy,
                   !.after = IF o.op = "get" THEN lastDone[o.key] ELSE NoneDone,
                   !.at = IF o.op = "get" THEN now ELSE 0]

\* the operation o runs to its end: the external store when o goes through it, then the local store
Complete(p, o) ==
    /\ redisStore' = IF o.viaRedis THEN RedisAfter(o) ELSE redisStore
    /\ nodeCache' = NodeAfter(o)
    /\ lastDone' = DoneAfter(o)
    /\ cops' = [Disturb(cops, o) EXCEPT ![p] = IdleOp]
    /\ lastRet' = Finished(o)

\* a call of get, set, del or flushAll by p: up to the await of the external store
\* when redisAvailable, to the end otherwise
BeginOp(p, o0) ==
    /\ cops[p].pc = "idle"
    /\ LET o == [o0 EXCEPT !.viaRedis = redisAvailable,
                           !.quiet = ~\E q \in Procs : Mutating(cops[q]) /\ Affects(cops[q], o0.key)]
       IN IF redisAvailable
          THEN /\ redisQueue' = Append(redisQueue, p)
               /\ cops' = [Disturb(cops, o) EXCEPT ![p] = [o EXCEPT !.pc = "redis"]]
               /\ UNCHANGED <<redisStore, nodeCache, lastDone, lastRet>>
          ELSE /\ Complete(p, o)
               /\ UNCHANGED redisQueue
    /\ UNCHANGED <<redisUrl, redisAvailable, isConnected, redisHealthy>>

\* a call made on the cache alone
Begin(p, o0) ==
    /\ BeginOp(p, o0)
    /\ UNCHANGED <<clientVars, limiterVars, reqs, ticks, now>>

cache_get(p, k) == Begin(p, [IdleOp EXCEPT !.op = "get", !.key = k])

cache_set(p, k, v, ttlSec) ==
    Begin(p, [IdleOp EXCEPT !.op = "set", !.key = k, !.val = v, !.ttl = EffectiveTtl(ttlSec)])

cache_del(p, k) == Begin(p, [IdleOp EXCEPT !.op = "del", !.key = k])

cache_flushAll(p) == Begin(p, [IdleOp EXCEPT !.op = "flushAll"])

\* the external store answers (or fails) the oldest command; its caller runs on to the end
ReplyOp ==
    /\ redisQueue # <<>>
    /\ Complete(Head(redisQueue), cops[Head(redisQueue)])
    /\ redisQueue' = Tail(redisQueue)
    /\ UNCHANGED <<redisUrl, redisAvailable, isConnected, redisHealthy>>

\* the same, for a call made on the cache alone
cache_Reply ==
    /\ ReplyOp
    /\ UNCHANGED <<clientVars, limiterVars, reqs, ticks, now>>

\* The calls of cache.set seen one step closer: the external store executes the
\* commands of the one connection in the order they were sent, and answers them in
\* that order; the caller goes on to nodeCache.set when its answer arrives.

\* cache.set up to its await of redis.setEx: the command is sent
shared_Set(p, k, v, ttlSec) == redisAvailable /\ cache_set(p, k, v, ttlSec)

\* the external store executes the oldest command it has not executed yet
redis_Execute(p) ==
    /\ cops[p].pc = "redis"
    /\ \E i \in 1..Len(redisQueue) :
          /\ redisQueue[i] = p
          /\ \A j \in 1..(i - 1) : cops[redisQueue[j]].pc = "executed"
    /\ redisStore' = RedisAfter(cops[p])
    /\ cops' = [cops EXCEPT ![p].pc = "executed"]
    /\ UNCHANGED <<redisUrl, redisAvailable, isConnected, redisHealthy, redisQueue,
                   nodeCache, lastDone, lastRet>>
    /\ UNCHANGED <<clientVars, limiterVars, reqs, ticks, now>>

\* shared_SetReply with the answers arriving in any order
shared_SetReplyAnyOrder(p) ==
    /\ cops[p].pc = "executed"
    /\ nodeCache' = NodeAfter(cops[p])
    /\ lastDone' = DoneAfter(cops[p])
    /\ lastRet' = Finished(cops[p])
    /\ cops' = [cops EXCEPT ![p] = IdleOp]
    /\ redisQueue' = SelectSeq(redisQueue, LAMBDA q : q # p)
    /\ UNCHANGED <<redisUrl, redisAvailable, isConnected, redisHealthy, redisStore>>
    /\ UNCHANGED <<clientVars, limiterVars, reqs, ticks, now>>

\* the answer to the oldest command arrives: its caller runs nodeCache.set and returns
shared_SetReply(p) ==
    /\ redisQueue # <<>> /\ Head(redisQueue) = p
    /\ cops[p].pc = "executed"
    /\ nodeCache' = NodeAfter(cops[p])
    /\ lastDone' = DoneAfter(cops[p])
    /\ lastRet' = Finished(cops[p])
    /\ cops' = [cops EXCEPT ![p] = IdleOp]
    /\ redisQueue' = Tail(redisQueue)
    /\ UNCHANGED <<redisUrl, redisAvailable, isConnected, redisHealthy, redisStore>>
    /\ UNCHANGED <<clientVars, limiterVars, reqs, ticks, now>>

\* initCache: redisAvailable = await redis.connect()
initCache ==
    /\ isConnected' = (redisUrl /\ (isConnected \/ redisHealthy))
    /\ redisAvailable' = isConnected'
    /\ UNCHANGED <<redisUrl, redisHealthy, redisStore, redisQueue, nodeCache, cops, lastDone, lastRet>>
    /\ UNCHANGED <<clientVars, limiterVars, reqs, ticks, now>>

\* the external store stops or resumes answering
RedisFlip ==
    /\ redisUrl
    /\ redisHealthy' = ~redisHealthy
    /\ UNCHANGED <<redisUrl, redisAvailable, isConnected, redisStore, redisQueue, nodeCache,
                   cops, lastDone, lastRet>>
    /\ UNCHANGED <<clientVars, limiterVars, reqs, ticks, now>>

(***************************************************************************)
(* Rate limiter: rateLimiters.ts                                           *)
(* Token counts are kept in units of 1/WINDOW_MS of a token, which makes   *)
(* timePassed * REFILL_RATE the integer (now - lastRefill) * MAX_TOKENS.   *)
(***************************************************************************)
IPs == {"ip1", "ip2"}

\* env.RATE_LIMIT_PER_MIN
MAX_TOKENS == 3

WINDOW_MS == 60000

ONE_HOUR == 3600000

\* one token, and a full bucket, in units of 1/WINDOW_MS of a token
ONE_TOKEN == WINDOW_MS
FULL == MAX_TOKENS * WINDOW_MS

Min(a, b) == IF a < b THEN a ELSE b
Max(a, b) == IF a > b THEN a ELSE b

\* Math.ceil(a / b) for b > 0
CeilDiv(a, b) == -((-a) \div b)

NoBucket == [present |-> FALSE, tokens |-> 0, lastRefill |-> 0]

\* refillBucket without the cap
refillBucketUncapped(b) ==
    [present |-> TRUE,
     tokens |-> b.tokens + (now - b.lastRefill) * MAX_TOKENS,
     lastRefill |-> now]

\* refillBucket at twice the rate
refillBucketDoubleRate(b) ==
    [present |-> TRUE,
     tokens |-> Min(FULL, b.tokens + (now - b.lastRefill) * MAX_TOKENS * 2),
     lastRefill |-> now]

\* refillBucket leaving lastRefill as it was
refillBucketKeepingTime(b) ==
    [present |-> TRUE,
     tokens |-> Min(FULL, b.tokens + (now - b.lastRefill) * MAX_TOKENS),
     lastRefill |-> b.lastRefill]

\* refillBucket: tokens = Math.min(MAX_TOKENS, tokens + timePassed * REFILL_RATE); lastRefill = now
refillBucket(b) ==
    [present |-> TRUE,
     tokens |-> Min(FULL, b.tokens + (now - b.lastRefill) * MAX_TOKENS),
     lastRefill |-> now]

\* buckets.get(ip), or a new full bucket
GetOrCreate(ip) ==
    IF buckets[ip].present THEN buckets[ip]
    ELSE [present |-> TRUE, tokens |-> FULL, lastRefill |-> now]

\* Admits with an empty bucket let through
AdmitsEmpty(b) == b.tokens >= 0

\* if (bucket.tokens >= 1)
Admits(b) == b.tokens >= ONE_TOKEN

\* the wait rounded down to whole seconds
RetryAfterRoundedDown(b) == Max(1, (ONE_TOKEN - b.tokens) \div (MAX_TOKENS * 1000))

\* Math.ceil(Math.max(1, (1 - bucket.tokens) / REFILL_RATE)), in seconds
RetryAfter(b) == Max(1, CeilDiv(ONE_TOKEN - b.tokens, MAX_TOKENS * 1000))

NoResp == [status |-> "none", error |-> "", retryAfter |-> 0, retryAfterHeader |-> 0,
           limitHeader |-> 0, remainingHeader |-> 0]

\* the response of rateLimit for the refilled bucket b: next(), or 429
Respond(b) ==
    IF Admits(b)
    THEN [status |-> "next", error |-> "", retryAfter |-> 0, retryAfterHeader |-> 0,
          limitHeader |-> MAX_TOKENS, remainingHeader |-> b.tokens \div WINDOW_MS]
    ELSE [status |-> "429", error |-> "Too many requests", retryAfter |-> RetryAfter(b),
          retryAfterHeader |-> RetryAfter(b),
          limitHeader |-> MAX_TOKENS, remainingHeader |-> b.tokens \div WINDOW_MS]

\* rateLimit with the token taken from the bucket of a rejected request as well
rateLimitChargingRejected(ip) ==
    LET old == GetOrCreate(ip)
        b   == refillBucket(old)
    IN /\ buckets' = [buckets EXCEPT ![ip] = [b EXCEPT !.tokens = Max(0, @ - ONE_TOKEN)]]
       /\ resp' = [resp EXCEPT ![ip] = Respond(b)]
       /\ UNCHANGED <<burst, waited, run, kept, win>>
       /\ UNCHANGED <<clientVars, cacheVars, reqs, ticks, now>>

NoRun == [t |-> 0, k |-> 0, adm |-> 0]

NoKept == [b |-> NoBucket, status |-> "none"]

NoWin == [open |-> FALSE, ip |-> "", start |-> 0, count |-> 0]

\* the observers of a request of identity ip: old is the bucket found or created, b the refilled one
Observed(ip, old, b) ==
    LET same == buckets[ip].present /\ now = old.lastRefill /\ run[ip].k > 0
        one  == IF Admits(b) THEN 1 ELSE 0
        ko   == IF kept[ip].b.present THEN kept[ip].b
                ELSE [present |-> TRUE, tokens |-> FULL, lastRefill |-> now]
        kb   == refillBucket(ko)
    IN /\ run' = [run EXCEPT ![ip] =
                     IF ~same THEN [t |-> b.tokens, k |-> 1, adm |-> one]
                     ELSE IF @.k > MAX_TOKENS + 1 THEN @
                     ELSE [t |-> @.t, k |-> @.k + 1, adm |-> @.adm + one]]
       /\ kept' = [kept EXCEPT ![ip] =
                     [b |-> IF Admits(kb) THEN [kb EXCEPT !.tokens = @ - ONE_TOKEN] ELSE kb,
                      status |-> IF Admits(kb) THEN "next" ELSE "429"]]
       /\ win' = IF win.open /\ win.ip = ip /\ Admits(b)
                 THEN [win EXCEPT !.count = @ + 1] ELSE win

\* rateLimit taking the token from a copy of the bucket, the stored bucket keeping it
rateLimit_OpOnCopy(ip) ==
    LET old == GetOrCreate(ip)
        b   == refillBucket(old)
    IN /\ buckets' = [buckets EXCEPT ![ip] = b]
       /\ resp' = [resp EXCEPT ![ip] = Respond(b)]
       /\ UNCHANGED <<burst, waited>>
       /\ Observed(ip, old, b)

\* rateLimit(req, res, next) for a request of identity ip: the limiter's own state
rateLimit_Op(ip) ==
    LET old == GetOrCreate(ip)
        b   == refillBucket(old)
    IN /\ buckets' = [buckets EXCEPT ![ip] =
                         IF Admits(b) THEN [b EXCEPT !.tokens = @ - ONE_TOKEN] ELSE b]
       /\ resp' = [resp EXCEPT ![ip] = Respond(b)]
       /\ burst' = [burst EXCEPT ![ip] =
                       IF b.tokens = FULL THEN 1
                       ELSE IF @ > 0 /\ buckets[ip].present /\ now = old.lastRefill
                            THEN Min(@ + 1, MAX_TOKENS + 2)
                       ELSE 0]
       /\ waited' = [waited EXCEPT ![ip] =
                       IF /\ buckets[ip].present /\ burst[ip] = MAX_TOKENS
                          /\ (now - old.lastRefill) * MAX_TOKENS = WINDOW_MS
                       THEN 1
                       ELSE IF @ = 1 /\ buckets[ip].present /\ now = old.lastRefill THEN 2
                       ELSE 0]
       /\ Observed(ip, old, b)

\* rateLimit(req, res, next) for a request of identity ip, with nothing behind it
rateLimit(ip) ==
    /\ rateLimit_Op(ip)
    /\ UNCHANGED <<clientVars, cacheVars, reqs, ticks, now>>

\* cleanupBuckets removing the buckets not used for more than a second
cleanupBucketsEager ==
    /\ buckets' = [ip \in IPs |->
                      IF buckets[ip].present /\ now - buckets[ip].lastRefill > 1000
                      THEN NoBucket ELSE buckets[ip]]
    /\ UNCHANGED <<resp, burst, waited, run, kept, win, clientVars, cacheVars, reqs, ticks, now>>

\* cleanupBuckets: the buckets not used for more than an hour are removed
cleanupBuckets ==
    /\ buckets' = [ip \in IPs |->
                      IF buckets[ip].present /\ now - buckets[ip].lastRefill > ONE_HOUR
                      THEN NoBucket ELSE buckets[ip]]
    /\ UNCHANGED <<resp, burst, waited, run, kept, win, clientVars, cacheVars, reqs, ticks, now>>

(***************************************************************************)
(* Explorer routes: validation, cache key, cache look-up, client call,     *)
(* cache write, response                                                   *)
(***************************************************************************)
ADDRESS_HEX == 40
HASH_HEX == 64
MAX_OFFSET == 100

\* KNOWN_CHAINS.filter((c) => c.supported).map((c) => c.id)
SUPPORTED_CHAIN_IDS == {1, 10, 56, 137, 324, 5000, 8453, 42161, 43114, 59144}

\* [a-fA-F0-9]
IsHexChar(c) == DigitValue(c) >= 0 \/ c \in {"A", "B", "C", "D", "E", "F"}

\* /^0x[a-fA-F0-9]{n}$/
HexString(s, n) ==
    /\ Len(s) = n + 2 /\ s[1] = "0" /\ s[2] = "x"
    /\ \A i \in 3..Len(s) : IsHexChar(s[i])

\* a request as express hands it over: path parameters and query strings
Raw(op, chainId, target, hasPage, page, hasOffset, offset, hasSort, sort) ==
    [op |-> op, chainId |-> chainId, target |-> target, hasPage |-> hasPage, page |-> page,
     hasOffset |-> hasOffset, offset |-> offset, hasSort |-> hasSort, sort |-> sort]

\* ChainIdParamSchema merged with AddressParamSchema or TxHashParamSchema
ParamsValid(raw) ==
    /\ Numeric(raw.chainId) /\ NumberOf(raw.chainId).n > 0
    /\ IF raw.op = "tx" THEN HexString(raw.target, HASH_HEX)
       ELSE HexString(raw.target, ADDRESS_HEX)

\* page and offset of TransfersQuerySchema and HoldersQuerySchema
PageOf(raw)   == NumberOf(IF raw.hasPage THEN raw.page ELSE <<"1">>)
OffsetOf(raw) == NumberOf(IF raw.hasOffset THEN raw.offset ELSE <<"2", "5">>)
SortOf(raw)   == IF raw.hasSort THEN raw.sort ELSE "desc"

\* TransfersQuerySchema, HoldersQuerySchema; the other two routes read no query
QueryValid(raw) ==
    raw.op \in {"transfers", "holders"} =>
        /\ ~PageOf(raw).nan /\ PageOf(raw).n > 0
        /\ ~OffsetOf(raw).nan /\ OffsetOf(raw).n > 0 /\ OffsetOf(raw).n <= MAX_OFFSET
        /\ raw.op = "transfers" => SortOf(raw) \in {"asc", "desc"}

isSupportedChain(chainId) == chainId \in SUPPORTED_CHAIN_IDS

\* the parsed parameters of a request; the fields a route does not read are left out
\* of its key and are given here as 0 and ""
Parsed(raw) ==
    [op |-> raw.op, chainId |-> NumberOf(raw.chainId).n, target |-> raw.target,
     page   |-> IF raw.op \in {"transfers", "holders"} THEN PageOf(raw).n ELSE 0,
     offset |-> IF raw.op \in {"transfers", "holders"} THEN OffsetOf(raw).n ELSE 0,
     sort   |-> IF raw.op = "transfers" THEN SortOf(raw) ELSE ""]

\* the validation at the head of each handler: the error of the 400 response, or "" 
Validate(raw) ==
    IF ~ParamsValid(raw) THEN "Invalid parameters"
    ELSE IF ~QueryValid(raw) THEN "Invalid query parameters"
    ELSE IF ~isSupportedChain(NumberOf(raw.chainId).n) THEN "Unsupported chain"
    ELSE ""

Colon == <<":">>

SortChars(sort) == IF sort = "asc" THEN <<"a", "s", "c">> ELSE <<"d", "e", "s", "c">>

\* cacheKey with the offset left out of the keys of the paginated routes
cacheKeyWithoutOffset(q) ==
    CASE q.op = "transfers" ->
           <<"t","r","a","n","s","f","e","r","s">> \o Colon \o NumberToString(q.chainId)
             \o Colon \o q.target \o Colon \o NumberToString(q.page)
             \o Colon \o SortChars(q.sort)
      [] q.op = "tokeninfo" ->
           <<"t","o","k","e","n","i","n","f","o">> \o Colon \o NumberToString(q.chainId)
             \o Colon \o q.target
      [] q.op = "tx" ->
           <<"t","x">> \o Colon \o NumberToString(q.chainId) \o Colon \o q.target
      [] q.op = "holders" ->
           <<"h","o","l","d","e","r","s">> \o Colon \o NumberToString(q.chainId)
             \o Colon \o q.target \o Colon \o NumberToString(q.page)

\* const cacheKey = `transfers:${chainId}:${address}:${page}:${offset}:${sort}`, and
\* the keys of the other three routes
cacheKey(q) ==
    CASE q.op = "transfers" ->
           <<"t","r","a","n","s","f","e","r","s">> \o Colon \o NumberToString(q.chainId)
             \o Colon \o q.target \o Colon \o NumberToString(q.page)
             \o Colon \o NumberToString(q.offset) \o Colon \o SortChars(q.sort)
      [] q.op = "tokeninfo" ->
           <<"t","o","k","e","n","i","n","f","o">> \o Colon \o NumberToString(q.chainId)
             \o Colon \o q.target
      [] q.op = "tx" ->
           <<"t","x">> \o Colon \o NumberToString(q.chainId) \o Colon \o q.target
      [] q.op = "holders" ->
           <<"h","o","l","d","e","r","s">> \o Colon \o NumberToString(q.chainId)
             \o Colon \o q.target \o Colon \o NumberToString(q.page)
             \o Colon \o NumberToString(q.offset)

\* the seconds for which each route caches its response
RouteTtl(op) ==
    CASE op = "transfers" -> 30 [] op = "tokeninfo" -> 300 [] op = "tx" -> 60 [] op = "holders" -> 180

\* errors that the client functions called by the routes raise
EtherscanErrorValue == [name |-> "EtherscanError", endpoint |-> TRUE]
FeatureUnavailableValue == [name |-> "ProviderFeatureUnavailableError", endpoint |-> TRUE]
NoErrorValue == [name |-> "", endpoint |-> FALSE]

\* what the client function of a route may do: return data, or raise; getTokenInfo
\* never raises, and only the holders function raises the feature-unavailable error
ClientOutcomes(op) ==
    { [kind |-> "value", val |-> v, error |-> NoErrorValue] : v \in Values }
    \cup (IF op = "tokeninfo" THEN {}
          ELSE { [kind |-> "error", val |-> NullValue, error |-> EtherscanErrorValue] })
    \cup (IF op = "holders"
          THEN { [kind |-> "error", val |-> NullValue, error |-> FeatureUnavailableValue] }
          ELSE {})

\* the response object of a route: the request it answers, the data, the unavailable
\* flag; properties of the data may be undefined
Body(q, v, unavailable) ==
    [data |-> [about |-> q, result |-> v.data, unavailable |-> unavailable], opt |-> v.opt]

NoBody == [data |-> [about |-> "", result |-> "", unavailable |-> FALSE], opt |-> ""]

Response(status, error, code, body, cacheControl) ==
    [status |-> status, error |-> error, code |-> code, body |-> body,
     cacheControl |-> cacheControl]

NoResponse == Response(0, "", "", NoBody, "")

\* res.json(body), with the Cache-Control header of the holders route
Json(q, body) ==
    Response(200, "", "", body, IF q.op = "holders" THEN "public, max-age=60" ELSE "")

\* handleRouteError with every error answered 500
handleRouteErrorInternal(e) ==
    Response(500, "Internal server error", "", NoBody, "")

\* handleRouteError: 502 for an EtherscanError (or an object with an endpoint), else 500
handleRouteError(e) ==
    IF e.name = "EtherscanError" \/ e.endpoint
    THEN Response(502, "Upstream error", "ETHERSCAN_ERROR", NoBody, "")
    ELSE Response(500, "Internal server error", "", NoBody, "")

\* the inner catch of the holders route
IsFeatureUnavailable(q, e) == q.op = "holders" /\ e.name = "ProviderFeatureUnavailableError"

NoGot == [quiet |-> FALSE, after |-> NoneDone, at |-> 0]

\* a handler that handles no request
NoReq == [pc |-> "idle", raw |-> Raw("", <<>>, <<>>, FALSE, <<>>, FALSE, <<>>, FALSE, ""),
          q |-> Parsed(Raw("", <<>>, <<>>, FALSE, <<>>, FALSE, <<>>, FALSE, "")),
          key |-> <<>>, upstream |-> 0, fromCache |-> FALSE, got |-> NoGot,
          raised |-> NoErrorValue, stored |-> FALSE, res |-> NoResponse]

\* res.json and res.status(..).json end a handler within the step that calls them: a
\* response is on record until route_End, which comes before the step of any handler
Delivered == \A p \in Procs : reqs[p].pc # "done"

\* the handler p after its await of cache.get
AfterGet(p, rq, ret) ==
    reqs' = [reqs EXCEPT ![p] =
        IF ~ret.result.isNull
        THEN [rq EXCEPT !.pc = "done", !.fromCache = TRUE, !.res = Json(rq.q, ret.result.val),
                        !.got = [quiet |-> ret.quiet, after |-> ret.after, at |-> ret.at]]
        ELSE [rq EXCEPT !.pc = "fetch", !.upstream = @ + 1,
                        !.got = [quiet |-> ret.quiet, after |-> ret.after, at |-> ret.at]]]

\* the head of a route handler: validation, then cache.get(cacheKey)
route_RequestOp(p, raw) ==
    /\ LET rq == [NoReq EXCEPT !.raw = raw, !.q = Parsed(raw), !.key = cacheKey(Parsed(raw))]
       IN IF Validate(raw) # ""
          THEN /\ reqs' = [reqs EXCEPT ![p] =
                     [NoReq EXCEPT !.raw = raw, !.pc = "done",
                                   !.res = Response(400, Validate(raw), "", NoBody, "")]]
               /\ UNCHANGED cacheVars
          ELSE /\ BeginOp(p, [IdleOp EXCEPT !.op = "get", !.key = rq.key])
               /\ IF redisAvailable
                  THEN reqs' = [reqs EXCEPT ![p] = [rq EXCEPT !.pc = "get"]]
                  ELSE AfterGet(p, rq, lastRet')

\* a request that the limiter admitted arrives at a route
route_Request(p, raw) ==
    /\ Delivered /\ reqs[p].pc = "idle" /\ cops[p].pc = "idle"
    /\ route_RequestOp(p, raw)
    /\ UNCHANGED <<clientVars, limiterVars, ticks, now>>

\* res.status(429).json({error: 'Too many requests', retryAfter})
TooManyRequests == Response(429, "Too many requests", "", NoBody, "")

\* explorer_Request with the limiter placed behind the cache look-up
explorer_RequestCacheFirst(p, ip, raw) ==
    /\ Delivered /\ reqs[p].pc = "idle" /\ cops[p].pc = "idle"
    /\ IF Validate(raw) = "" /\ ~cache_get_result(cacheKey(Parsed(raw)), redisAvailable).isNull
       THEN route_RequestOp(p, raw) /\ UNCHANGED limiterVars
       ELSE /\ rateLimit_Op(ip)
            /\ IF Admits(refillBucket(GetOrCreate(ip)))
               THEN route_RequestOp(p, raw)
               ELSE /\ reqs' = [reqs EXCEPT ![p] = [NoReq EXCEPT !.raw = raw, !.pc = "done",
                                                                !.res = TooManyRequests]]
                    /\ UNCHANGED cacheVars
    /\ UNCHANGED <<clientVars, ticks, now>>

\* a request of identity ip arrives at the explorer router: explorerRouter.use(rateLimit),
\* then, when the limiter calls next(), the route handler
explorer_Request(p, ip, raw) ==
    /\ Delivered /\ reqs[p].pc = "idle" /\ cops[p].pc = "idle"
    /\ rateLimit_Op(ip)
    /\ IF Admits(refillBucket(GetOrCreate(ip)))
       THEN route_RequestOp(p, raw)
       ELSE /\ reqs' = [reqs EXCEPT ![p] = [NoReq EXCEPT !.raw = raw, !.pc = "done",
                                                        !.res = TooManyRequests]]
            /\ UNCHANGED cacheVars
    /\ UNCHANGED <<clientVars, ticks, now>>

\* the external store answers the cache.get of p
route_GetReply(p) ==
    /\ Delivered /\ reqs[p].pc = "get" /\ redisQueue # <<>> /\ Head(redisQueue) = p
    /\ ReplyOp
    /\ AfterGet(p, reqs[p], lastRet')
    /\ UNCHANGED <<clientVars, limiterVars, ticks, now>>

\* route_Fetched with the response to a failed call stored as well
route_FetchedStoringErrors(p, out) ==
    /\ Delivered /\ reqs[p].pc = "fetch"
    /\ LET rq == reqs[p]
           body == IF out.kind = "value" THEN Body(rq.q, out.val, FALSE)
                   ELSE Body(rq.q, [data |-> "", opt |-> "Holders not available on this chain/plan"], TRUE)
       IN /\ BeginOp(p, [IdleOp EXCEPT !.op = "set", !.key = rq.key, !.val = body,
                                       !.ttl = EffectiveTtl(RouteTtl(rq.q.op))])
          /\ reqs' = [reqs EXCEPT ![p] =
                [rq EXCEPT !.pc = IF redisAvailable THEN "set" ELSE "done",
                           !.raised = out.error, !.stored = TRUE,
                           !.res = IF out.kind = "value" \/ IsFeatureUnavailable(rq.q, out.error)
                                   THEN Json(rq.q, body) ELSE handleRouteError(out.error)]]
    /\ UNCHANGED <<clientVars, limiterVars, ticks, now>>

\* the client function of the route returns or raises: the response is built and
\* stored with cache.set, or the error is mapped
route_Fetched(p, out) ==
    /\ Delivered /\ reqs[p].pc = "fetch"
    /\ LET rq == reqs[p]
           stores == out.kind = "value" \/ IsFeatureUnavailable(rq.q, out.error)
           body == IF out.kind = "value" THEN Body(rq.q, out.val, FALSE)
                   ELSE Body(rq.q, [data |-> "", opt |-> "Holders not available on this chain/plan"], TRUE)
       IN IF stores
          THEN /\ BeginOp(p, [IdleOp EXCEPT !.op = "set", !.key = rq.key, !.val = body,
                                            !.ttl = EffectiveTtl(RouteTtl(rq.q.op))])
               /\ reqs' = [reqs EXCEPT ![p] =
                     [rq EXCEPT !.pc = IF redisAvailable THEN "set" ELSE "done",
                                !.raised = out.error, !.stored = TRUE,
                                !.res = Json(rq.q, body)]]
          ELSE /\ reqs' = [reqs EXCEPT ![p] =
                     [rq EXCEPT !.pc = "done", !.raised = out.error,
                                !.res = handleRouteError(out.error)]]
               /\ UNCHANGED cacheVars
    /\ UNCHANGED <<clientVars, limiterVars, ticks, now>>

\* the external store answers the cache.set of p: the response is sent
route_SetReply(p) ==
    /\ Delivered /\ reqs[p].pc = "set" /\ redisQueue # <<>> /\ Head(redisQueue) = p
    /\ ReplyOp
    /\ reqs' = [reqs EXCEPT ![p].pc = "done"]
    /\ UNCHANGED <<clientVars, limiterVars, ticks, now>>

\* the response of p is sent: the handler is over
route_End(p) ==
    /\ reqs[p].pc = "done"
    /\ reqs' = [reqs EXCEPT ![p] = NoReq]
    /\ UNCHANGED <<cacheVars, clientVars, limiterVars, ticks, now>>

\* POST /api/admin/cache/clear: cache.flushAll()
admin_CacheClear(p) ==
    /\ Delivered /\ reqs[p].pc = "idle" /\ cops[p].pc = "idle"
    /\ BeginOp(p, [IdleOp EXCEPT !.op = "flushAll", !.key = <<>>])
    /\ reqs' = [reqs EXCEPT ![p] = [NoReq EXCEPT !.pc = IF redisAvailable THEN "clear" ELSE "done",
                                                 !.res = Response(200, "", "", NoBody, "")]]
    /\ UNCHANGED <<clientVars, limiterVars, ticks, now>>

\* the external store answers the flushAll of p
admin_CacheClearReply(p) ==
    /\ Delivered /\ reqs[p].pc = "clear" /\ redisQueue # <<>> /\ Head(redisQueue) = p
    /\ ReplyOp
    /\ reqs' = [reqs EXCEPT ![p].pc = "done"]
    /\ UNCHANGED <<clientVars, limiterVars, ticks, now>>

\* the head of a handler alone: validation and the cache key
route_Key(p, raw) ==
    /\ reqs[p].pc = "idle"
    /\ reqs' = [reqs EXCEPT ![p] =
          IF Validate(raw) # ""
          THEN [NoReq EXCEPT !.raw = raw, !.pc = "done",
                             !.res = Response(400, Validate(raw), "", NoBody, "")]
          ELSE [NoReq EXCEPT !.raw = raw, !.q = Parsed(raw), !.key = cacheKey(Parsed(raw)),
                             !.pc = "keyed"]]
    /\ UNCHANGED <<cacheVars, clientVars, limiterVars, ticks, now>>

(***************************************************************************)
(* The clock                                                               *)
(***************************************************************************)
MaxTicks == 4

MaxCacheTicks == 2

\* clock advances seen by the limiter, in ms: half of 1/R, 1/R, over an hour
LimiterSteps == { WINDOW_MS \div (2 * MAX_TOKENS), WINDOW_MS \div MAX_TOKENS, ONE_HOUR + 1 }

\* clock advances before a rejected request, in ms: an eighth of 1/R, half of 1/R
RetrySteps == { WINDOW_MS \div (8 * MAX_TOKENS), WINDOW_MS \div (2 * MAX_TOKENS) }

\* clock advances seen by the cache, in ms
CacheSteps == { 1000 }

\* the clock moves by d; the observer of the requests of one instant starts afresh
Tick(d, max) ==
    /\ ticks < max
    /\ ticks' = ticks + 1
    /\ now' = now + d
    /\ run' = [ip \in IPs |-> NoRun]
    /\ UNCHANGED <<clientVars, cacheVars, buckets, resp, burst, waited, kept, win, reqs>>

\* the client of identity ip, just rejected, lets the announced Retry-After seconds go by
WaitRetryAfter(ip) ==
    /\ resp[ip].status = "429"
    /\ buckets[ip].present /\ buckets[ip].lastRefill = now
    /\ Tick(resp[ip].retryAfter * 1000, MaxTicks)

(***************************************************************************)
(* Specifications                                                          *)
(***************************************************************************)
ClientStart ==
    /\ pc = "idle"
    /\ upcalls = <<>>
    /\ sub = NoSub
    /\ outcome = NoOutcome

CacheStart ==
    /\ redisAvailable = FALSE
    /\ isConnected = FALSE
    /\ redisStore = [k \in Keys |-> NoEntry]
    /\ redisQueue = <<>>
    /\ nodeCache = [k \in Keys |-> NoEntry]
    /\ cops = [p \in Procs |-> IdleOp]
    /\ lastDone = [k \in Keys |-> NoneDone]
    /\ lastRet = IdleOp

LimiterStart ==
    /\ buckets = [ip \in IPs |-> NoBucket]
    /\ resp = [ip \in IPs |-> NoResp]
    /\ burst = [ip \in IPs |-> 0]
    /\ waited = [ip \in IPs |-> 0]
    /\ run = [ip \in IPs |-> NoRun]
    /\ kept = [ip \in IPs |-> NoKept]
    /\ win = NoWin

RouteStart == reqs = [p \in Procs |-> NoReq]

ClockStart == ticks = 0 /\ now = 0

\* the client alone
InitClient ==
    /\ ClientStart /\ CacheStart /\ LimiterStart /\ RouteStart /\ ClockStart
    /\ redisUrl = FALSE /\ redisHealthy = FALSE

NextClient ==
    \/ getTopTokenHolders_Call
    \/ \E rsp \in HolderResponses : getTopTokenHolders_Return(rsp)
    \/ getTxDetails_Call
    \/ \E i \in 1..3 : \E rsp \in TxResponses(i) : getTxDetails_SubReturn(i, rsp)
    \/ getTokenTransfers_Call
    \/ \E rsp \in TransferResponses : getTokenTransfers_Return(rsp)
    \/ getTokenInfo_Call
    \/ \E rsp \in SupplyResponses : getTokenInfo_Return(rsp)
    \/ ClientReset

SpecClient == InitClient /\ [][NextClient]_vars

\* the cache alone
InitCache ==
    /\ ClientStart /\ CacheStart /\ LimiterStart /\ RouteStart /\ ClockStart
    /\ redisUrl \in BOOLEAN /\ redisHealthy \in BOOLEAN

NextCache ==
    \/ initCache
    \/ RedisFlip
    \/ \E p \in Procs, k \in Keys : cache_get(p, k)
    \/ \E p \in Procs, k \in Keys, v \in Values, t \in TTLs : cache_set(p, k, v, t)
    \/ \E p \in Procs, k \in Keys : cache_del(p, k)
    \/ \E p \in Procs : cache_flushAll(p)
    \/ cache_Reply
    \/ \E d \in CacheSteps : Tick(d, MaxCacheTicks)

SpecCache == InitCache /\ [][NextCache]_vars

\* concurrent calls of cache.set, the external store connected and answering
InitShared ==
    /\ ClientStart /\ LimiterStart /\ RouteStart /\ ClockStart
    /\ redisUrl = TRUE /\ redisHealthy = TRUE
    /\ redisAvailable = TRUE
    /\ isConnected = TRUE
    /\ redisStore = [k \in Keys |-> NoEntry]
    /\ redisQueue = <<>>
    /\ nodeCache = [k \in Keys |-> NoEntry]
    /\ cops = [p \in Procs |-> IdleOp]
    /\ lastDone = [k \in Keys |-> NoneDone]
    /\ lastRet = IdleOp

NextShared ==
    \/ \E p \in Procs, k \in Keys, v \in Values, t \in TTLs : shared_Set(p, k, v, t)
    \/ \E p \in Procs : redis_Execute(p)
    \/ \E p \in Procs : shared_SetReply(p)
    \/ \E d \in CacheSteps : Tick(d, MaxCacheTicks)

SpecShared == InitShared /\ [][NextShared]_vars

\* the limiter alone
InitLimiter ==
    /\ ClientStart /\ CacheStart /\ LimiterStart /\ RouteStart /\ ClockStart
    /\ redisUrl = FALSE /\ redisHealthy = FALSE

NextLimiter ==
    \/ \E ip \in IPs : rateLimit(ip)
    \/ cleanupBuckets
    \/ \E d \in LimiterSteps : Tick(d, MaxTicks)

SpecLimiter == InitLimiter /\ [][NextLimiter]_vars

\* the identity whose admitted requests are counted
WindowIP == "ip1"

\* an interval begins now: the admitted requests of WindowIP are counted from here on
StartWindow ==
    /\ ~win.open
    /\ win' = [open |-> TRUE, ip |-> WindowIP, start |-> now, count |-> 0]
    /\ UNCHANGED <<buckets, resp, burst, waited, run, kept>>
    /\ UNCHANGED <<clientVars, cacheVars, reqs, ticks, now>>

\* the limiter serving one identity, observed over an interval that begins at any time
NextWindow ==
    \/ rateLimit(WindowIP)
    \/ cleanupBuckets
    \/ \E d \in LimiterSteps : Tick(d, MaxTicks)
    \/ StartWindow

SpecWindow == InitLimiter /\ [][NextWindow]_vars

\* steps back of the system clock, in ms (Date.now() is not monotonic): 1/R
BackSteps == { WINDOW_MS \div MAX_TOKENS }

\* the limiter under a clock that may also be set back
NextSkew ==
    \/ NextLimiter
    \/ \E d \in BackSteps : Tick(-d, MaxTicks)

SpecSkew == InitLimiter /\ [][NextSkew]_vars

\* the limiter and clients that wait for as long as a rejection told them to
NextRetry ==
    \/ \E ip \in IPs : rateLimit(ip)
    \/ cleanupBuckets
    \/ \E d \in RetrySteps : Tick(d, MaxTicks)
    \/ \E ip \in IPs : WaitRetryAfter(ip)

SpecRetry == InitLimiter /\ [][NextRetry]_vars

\* requests made to the explorer routes
AddrA == <<"0", "x">> \o [i \in 1..ADDRESS_HEX |-> "a"]
AddrB == <<"0", "x">> \o [i \in 1..ADDRESS_HEX |-> "B"]
HashA == <<"0", "x">> \o [i \in 1..HASH_HEX |-> "a"]
HashB == <<"0", "x">> \o [i \in 1..HASH_HEX |-> "b"]

RouteRequests ==
    { Raw("holders", <<"1">>, AddrA, TRUE, <<"1">>, FALSE, <<>>, FALSE, ""),
      Raw("holders", <<"2", "5">>, AddrA, FALSE, <<>>, FALSE, <<>>, FALSE, "") }

RouteKeys == { cacheKey(Parsed(raw)) : raw \in { r \in RouteRequests : Validate(r) = "" } }

\* clock advances seen by the routes, in ms: just over the longest TTL but one
RouteSteps == { RouteTtl("holders") * 1000 + 1 }

MaxRouteTicks == 1

\* the explorer routes and the admin cache route over the cache; the client functions
\* are taken by what they return or raise
InitRoute ==
    /\ ClientStart /\ LimiterStart /\ RouteStart /\ ClockStart
    /\ redisUrl \in BOOLEAN /\ redisHealthy \in BOOLEAN
    /\ redisAvailable = FALSE
    /\ isConnected = FALSE
    /\ redisStore = [k \in RouteKeys |-> NoEntry]
    /\ redisQueue = <<>>
    /\ nodeCache = [k \in RouteKeys |-> NoEntry]
    /\ cops = [p \in Procs |-> IdleOp]
    /\ lastDone = [k \in RouteKeys |-> NoneDone]
    /\ lastRet = IdleOp

NextRoute ==
    \/ initCache
    \/ RedisFlip
    \/ \E p \in Procs, raw \in RouteRequests : route_Request(p, raw)
    \/ \E p \in Procs : route_GetReply(p)
    \/ \E p \in Procs : \E out \in ClientOutcomes(reqs[p].q.op) : route_Fetched(p, out)
    \/ \E p \in Procs : route_SetReply(p)
    \/ \E p \in Procs : route_End(p)
    \/ \E p \in Procs : admin_CacheClear(p)
    \/ \E p \in Procs : admin_CacheClearReply(p)
    \/ \E d \in RouteSteps : Tick(d, MaxRouteTicks)

SpecRoute == InitRoute /\ [][NextRoute]_vars

\* clock advances seen by the limiter in front of the routes, in ms: 1/R
ExplorerSteps == { WINDOW_MS \div MAX_TOKENS }

\* the identities of the requests made to the routes
ExplorerIPs == {"ip1"}

\* the explorer router with its limiter, the external store not configured; the client
\* functions are taken by what they return or raise
InitExplorer ==
    /\ InitRoute
    /\ redisUrl = FALSE /\ redisHealthy = FALSE

NextExplorer ==
    \/ \E p \in Procs, ip \in ExplorerIPs, raw \in RouteRequests : explorer_Request(p, ip, raw)
    \/ \E p \in Procs : \E out \in ClientOutcomes(reqs[p].q.op) : route_Fetched(p, out)
    \/ \E p \in Procs : route_End(p)
    \/ \E d \in ExplorerSteps : Tick(d, MaxRouteTicks)

SpecExplorer == InitExplorer /\ [][NextExplorer]_vars

\* requests whose keys are compared
KeyRequests ==
    { Raw("transfers", c, a, hp, pg, TRUE, of, hs, so) :
        c \in {<<"1">>, <<"1", "0">>}, a \in {AddrA, AddrB},
        hp \in BOOLEAN, pg \in {<<"1">>, <<"1", "1">>}, of \in {<<"1">>, <<"1", "1">>, <<"1", "0", "1">>},
        hs \in BOOLEAN, so \in {"asc", "up"} }
    \cup { Raw("holders", c, a, TRUE, pg, ho, of, FALSE, "") :
        c \in {<<"1">>, <<"1", "0">>, <<"a">>}, a \in {AddrA, AddrB},
        pg \in {<<"1">>, <<"1", "1">>, <<"0">>}, ho \in BOOLEAN, of \in {<<"1">>, <<"1", "1">>} }
    \cup { Raw(op, c, a, FALSE, <<>>, FALSE, <<>>, FALSE, "") :
        op \in {"tokeninfo", "tx"}, c \in {<<"1">>, <<"1", "0">>}, a \in {AddrA, HashA, HashB} }

\* the cache keys alone
InitKeys ==
    /\ ClientStart /\ CacheStart /\ LimiterStart /\ RouteStart /\ ClockStart
    /\ redisUrl = FALSE /\ redisHealthy = FALSE

NextKeys == \E p \in Procs, raw \in KeyRequests : route_Key(p, raw)

SpecKeys == InitKeys /\ [][NextKeys]_vars

(***************************************************************************)
(* Properties of the client                                                *)
(***************************************************************************)
\* the failures on which the resolver is to fall back: HTTP 404, or a status "0"
\* envelope whose message is "Invalid action"
MissingAction(rsp) ==
    /\ rsp.kind = "http"
    /\ \/ rsp.code = 404
       \/ /\ rsp.code = 200 /\ rsp.envelopeOk
          /\ rsp.status = "0" /\ rsp.message = "Invalid action"

\* a plan or feature restriction: HTTP 402 or 403, or an envelope that says so
PlanRestricted(rsp) ==
    /\ rsp.kind = "http"
    /\ \/ rsp.code \in {402, 403}
       \/ /\ rsp.code = 200 /\ rsp.envelopeOk
          /\ rsp.status = "0" /\ rsp.result.str = PlanMessage

InHolders == pc \in {"holders_wait", "holders_done"}
InTx == pc \in {"tx_wait", "tx_done"}

FirstFailed ==
    /\ InHolders /\ Len(upcalls) >= 1 /\ upcalls[1].answered
    /\ ~makeRequest(upcalls[1].rsp, "TopHolders").ok

\* C1: the primary action tokenholderlist is tried first, and when it fails with 404 or
\* "Invalid action" exactly one more call is made, with action topholders, whose
\* normalized holders are returned
C1_FallbackToSecondary ==
    (pc = "holders_done" /\ FirstFailed /\ MissingAction(upcalls[1].rsp)) =>
        /\ upcalls[1].action = "tokenholderlist"
        /\ Len(upcalls) = 2
        /\ upcalls[2].action = "topholders"
        /\ makeRequest(upcalls[2].rsp, "TopHolders").ok =>
              /\ outcome.kind = "value"
              /\ outcome.value = NormalizeHolders(upcalls[2].rsp.result.items)

C9_FeatureUnavailableRaised ==
    (pc = "holders_done" /\ FirstFailed) =>
        /\ outcome.kind = "error"
        /\ outcome.name = IF PlanRestricted(upcalls[1].rsp)
                          THEN "ProviderFeatureUnavailableError" ELSE "EtherscanError"

TxResult    == upcalls[1].rsp.result
StatusResult == upcalls[3].rsp.result

\* C5 as stated: null block number gives pending, else no error gives success, else fail
C5_StatusRule ==
    (pc = "tx_done" /\ outcome.kind = "value") =>
        outcome.value.status =
            IF TxResult.bnNull THEN "pending"
            ELSE IF StatusResult.isError = "0" THEN "success"
            ELSE "fail"

\* C5 amended: null block number gives pending whatever the execution status is; else
\* isError "0" gives success; else isError "1" gives fail; else the status is left
\* undefined
C5_StatusRuleAmended ==
    (pc = "tx_done" /\ outcome.kind = "value") =>
        /\ TxResult.bnNull => outcome.value.status = "pending"
        /\ (~TxResult.bnNull /\ StatusResult.isError = "0") => outcome.value.status = "success"
        /\ (~TxResult.bnNull /\ StatusResult.isError = "1") => outcome.value.status = "fail"
        /\ (~TxResult.bnNull /\ StatusResult.isError \notin {"0", "1"}) =>
              outcome.value.status = "undefined"

C5_Witness ==
    /\ pc = "tx_done" /\ outcome.kind = "value"
    /\ TxResult.bnNull /\ StatusResult.isError = "1"
    /\ outcome.value.status = "pending"

\* C10: getTxDetails returns a value only when all three requests have succeeded, and
\* fails as soon as one of them has failed, in whatever order they are answered
C10_AllOrNothing ==
    InTx =>
        /\ outcome.kind = "value" => \A i \in 1..3 : sub[i].state = "ok"
        /\ (\E i \in 1..3 : sub[i].state = "err") => (pc = "tx_done" /\ outcome.kind = "error")
        /\ (\A i \in 1..3 : sub[i].state = "ok") => (pc = "tx_done" /\ outcome.kind = "value")

C10_Witness ==
    /\ pc = "tx_done" /\ outcome.kind = "error"
    /\ sub[1].state = "ok" /\ sub[3].state = "ok" /\ sub[2].state = "err"

\* the upstream answered with a well-formed success envelope whose result is of the type
AnsweredWith(rsp, type) ==
    /\ rsp.kind = "http" /\ rsp.code = 200 /\ rsp.envelopeOk
    /\ rsp.status = "1" \/ rsp.message \in NO_ERROR_MESSAGES
    /\ rsp.result.type = type

TransferItems == upcalls[1].rsp.result.items

\* C11: when the upstream returns a transfer record whose block number is not a decimal
\* number, getTokenTransfers raises an error; when all are, each DTO carries the number
\* its string denotes
C11_NonNumericBlockNumberFails ==
    (pc = "transfers_done" /\ AnsweredWith(upcalls[1].rsp, "array")) =>
        IF \E i \in 1..Len(TransferItems) : ~Numeric(TransferItems[i].blockNumber)
        THEN outcome.kind = "error"
        ELSE /\ outcome.kind = "value"
             /\ Len(outcome.value) = Len(TransferItems)
             /\ \A i \in 1..Len(TransferItems) :
                   /\ ~outcome.value[i].blockNumber.nan
                   /\ outcome.value[i].blockNumber.n = DecimalValue(TransferItems[i].blockNumber)

\* C12: getTokenInfo always returns: the requested contract address, the upstream string
\* as totalSupplyRaw when the supply request succeeded and totalSupplyRaw undefined when it
\* failed in any way, and name, symbol and decimals undefined
C12_SupplyFailureSwallowed ==
    pc = "info_done" =>
        /\ outcome.kind = "value"
        /\ outcome.value.contractAddress = "0xtoken"
        /\ outcome.value.name = "undefined"
        /\ outcome.value.symbol = "undefined"
        /\ outcome.value.decimals = "undefined"
        /\ IF AnsweredWith(upcalls[1].rsp, "string")
           THEN /\ outcome.value.hasTotalSupplyRaw
                /\ outcome.value.totalSupplyRaw = upcalls[1].rsp.result.str
           ELSE ~outcome.value.hasTotalSupplyRaw

C12_Witness ==
    /\ pc = "info_done" /\ upcalls[1].rsp.kind = "network"
    /\ outcome.kind = "value" /\ ~outcome.value.hasTotalSupplyRaw

\* C13: every upstream request carries a bounded timeout, so that none stays unanswered
\* for ever
C13_EveryCallHasTimeout ==
    \A i \in 1..Len(upcalls) : upcalls[i].timeout > 0

\* C14: an invocation of getTokenTransfers or of getTokenInfo makes exactly one upstream
\* request, one of getTxDetails exactly three, one of the holders operation at most two,
\* the second only as the fallback; no request is made again
C14_NoRetry ==
    /\ pc \in {"transfers_wait", "transfers_done", "info_wait", "info_done"} => Len(upcalls) = 1
    /\ InTx => Len(upcalls) = 3 /\ \A i, j \in 1..3 : i # j => upcalls[i].action # upcalls[j].action
    /\ InHolders =>
          /\ Len(upcalls) \in 1..2
          /\ Len(upcalls) = 2 => MissingAction(upcalls[1].rsp)

C14_Witness ==
    /\ pc = "transfers_done" /\ outcome.kind = "error" /\ Len(upcalls) = 1
    /\ upcalls[1].rsp.kind = "network"

(***************************************************************************)
(* Properties of the cache                                                 *)
(***************************************************************************)
\* a read that began after the last write of its key had completed, and that no write
\* of that key overlapped, before the TTL of that write elapsed
ReadAfterSet ==
    /\ lastRet.op = "get" /\ lastRet.quiet
    /\ lastRet.after.kind = "set" /\ lastRet.at < lastRet.after.exp

\* C3: whatever the state of the external store, a get after a completed set of the
\* same key, within the TTL and with no write in between, returns the value set
C3_GetAfterSet ==
    ReadAfterSet =>
        /\ ~lastRet.result.isNull
        /\ SameValue(lastRet.result.val, lastRet.after.val)

C17_ExpiredEntryAbsent ==
    (/\ lastRet.op = "get" /\ lastRet.quiet
     /\ lastRet.after.kind = "set" /\ lastRet.at > lastRet.after.exp) =>
        lastRet.result.isNull

\* the stores as the get that returned last found them
RedisHit ==
    /\ ~lastRet.extDown
    /\ redisStore[lastRet.key].present /\ lastRet.at < redisStore[lastRet.key].exp

LocalHit ==
    /\ nodeCache[lastRet.key].present /\ nodeCache[lastRet.key].exp >= lastRet.at

\* C18: a get returns the entry of the external store when that store is connected and
\* holds the key; otherwise (miss, error, not connected) the entry of the local store when
\* it holds the key; absent only when neither holds it
C18_ExternalThenLocal ==
    lastRet.op = "get" =>
        IF RedisHit
        THEN lastRet.result = NonNull(JSONparse(redisStore[lastRet.key].val))
        ELSE IF LocalHit
        THEN lastRet.result = NonNull(nodeCache[lastRet.key].val)
        ELSE lastRet.result.isNull

C18_Witness ==
    /\ lastRet.op = "get" /\ lastRet.viaRedis /\ ~lastRet.extDown
    /\ ~RedisHit /\ LocalHit /\ ~lastRet.result.isNull

(***************************************************************************)
(* Properties of the limiter                                               *)
(***************************************************************************)
\* C6: no bucket ever holds more than MAX_TOKENS tokens, nor does a response report more
C6_TokensAtMostMax ==
    \A ip \in IPs :
        /\ buckets[ip].present => buckets[ip].tokens <= FULL
        /\ resp[ip].remainingHeader <= MAX_TOKENS

C6_Witness ==
    \E ip \in IPs :
        /\ buckets[ip].present /\ buckets[ip].lastRefill > ONE_HOUR
        /\ buckets[ip].tokens = FULL - ONE_TOKEN
        /\ burst[ip] = 1 /\ ticks >= 2

\* C7: of the requests made at one instant on a full bucket, the first MAX_TOKENS are
\* admitted and the next one is answered 429 with the error 'Too many requests', a
\* retryAfter in the body and the same value in the Retry-After header
C7_BurstThenReject ==
    \A ip \in IPs :
        /\ burst[ip] \in 1..MAX_TOKENS => resp[ip].status = "next"
        /\ burst[ip] = MAX_TOKENS + 1 =>
              /\ resp[ip].status = "429"
              /\ resp[ip].error = "Too many requests"
              /\ resp[ip].retryAfter >= 1
              /\ resp[ip].retryAfterHeader = resp[ip].retryAfter

C7_Witness ==
    \E ip \in IPs : burst[ip] = MAX_TOKENS + 1 /\ resp[ip].status = "429"

\* C8: once MAX_TOKENS same-instant requests have emptied a bucket, the first request
\* made 1/R seconds later is admitted and one made right after it is rejected
C8_OneTokenAfterWait ==
    \A ip \in IPs :
        /\ waited[ip] = 1 => resp[ip].status = "next"
        /\ waited[ip] = 2 => resp[ip].status = "429"

C8_Witness ==
    \E ip \in IPs : waited[ip] = 2 /\ resp[ip].status = "429"

(***************************************************************************)
(* Properties of the explorer routes                                       *)
(***************************************************************************)
\* the handler p has looked its key up after a response had been stored under it, with
\* no write of the key in between or under way, before the TTL of that entry elapsed
AfterStored(p) ==
    /\ reqs[p].pc \in {"fetch", "set", "done"}
    /\ reqs[p].got.quiet
    /\ reqs[p].got.after.kind = "set" /\ reqs[p].got.at < reqs[p].got.after.exp

\* C15: a request identical to one whose response has been stored, arriving within the
\* TTL and before any flush, is answered from the cache with the stored body, and the
\* client is not called
C15_RepeatServedFromCache ==
    \A p \in Procs :
        AfterStored(p) =>
            /\ reqs[p].upstream = 0
            /\ reqs[p].pc = "done"
            /\ reqs[p].fromCache
            /\ reqs[p].res.status = 200
            /\ SameValue(reqs[p].res.body, reqs[p].got.after.val)

\* C16: two requests are given the same cache key exactly when they are the same
\* operation with the same chain id, address or hash, page, offset and sort
C16_KeysInjective ==
    \A p, r \in Procs :
        (reqs[p].pc = "keyed" /\ reqs[r].pc = "keyed") =>
            ((reqs[p].key = reqs[r].key) <=> (reqs[p].q = reqs[r].q))

C16_Witness ==
    /\ reqs["p1"].pc = "keyed" /\ reqs["p2"].pc = "keyed"
    /\ reqs["p1"].q.op = "holders" /\ reqs["p2"].q.op = "holders"
    /\ reqs["p1"].q.chainId = reqs["p2"].q.chainId
    /\ reqs["p1"].q.target = reqs["p2"].q.target
    /\ reqs["p1"].q.page = reqs["p2"].q.page
    /\ reqs["p1"].q.offset = 1 /\ reqs["p2"].q.offset = 11
    /\ reqs["p1"].key # reqs["p2"].key

Refilled(ip) ==
    IF buckets[ip].present
    THEN Min(FULL, buckets[ip].tokens + (now - buckets[ip].lastRefill) * MAX_TOKENS)
    ELSE FULL

\* C20: a request is admitted exactly when its bucket, refilled for the elapsed time,
\* holds one token or more; an admitted request leaves one token less than the refilled
\* bucket held, a rejected one (429) leaves what the refilled bucket held
C20_RefillThenAdmit ==
    [][\A ip \in IPs :
          rateLimit(ip) =>
              /\ buckets'[ip].present /\ buckets'[ip].lastRefill = now
              /\ IF Refilled(ip) >= ONE_TOKEN
                 THEN /\ resp'[ip].status = "next"
                      /\ buckets'[ip].tokens = Refilled(ip) - ONE_TOKEN
                 ELSE /\ resp'[ip].status = "429"
                      /\ buckets'[ip].tokens = Refilled(ip)]_vars

C20_Witness ==
    \E ip \in IPs :
        /\ resp[ip].status = "429" /\ buckets[ip].present
        /\ buckets[ip].tokens > 0 /\ buckets[ip].lastRefill = now

\* C21: a request made retryAfter seconds after a rejection, with no request of the
\* same identity in between, is admitted: the announced wait is long enough for the
\* bucket to hold one token.
C21_RetryAfterSuffices ==
    [][\A ip \in IPs :
         ( /\ resp[ip].status = "429"
           /\ buckets[ip].present
           /\ now - buckets[ip].lastRefill = resp[ip].retryAfter * 1000
           /\ buckets'[ip].present /\ buckets'[ip].lastRefill = now
           /\ buckets'[ip] # buckets[ip] )
         => resp'[ip].status = "next"]_vars

\* a rejected request announced a wait rounded up from a fraction of a second,
\* and the request made that long after it was admitted
C21_Witness ==
    \E ip \in IPs :
        /\ resp[ip].status = "next"
        /\ buckets[ip].present /\ buckets[ip].lastRefill = now
        /\ buckets[ip].tokens > 0 /\ buckets[ip].tokens < ONE_TOKEN
        /\ run[ip].k = 1 /\ run[ip].t < ONE_TOKEN + MAX_TOKENS * 1000

\* C22: k requests of one identity handled with no time elapsing, against a bucket
\* holding t whole tokens, see exactly min(k, t) admitted and leave t - min(k, t)
\* tokens, however the handlers of that and of other identities interleave.
C22_NoLostUpdate ==
    \A ip \in IPs :
        ( /\ buckets[ip].present
          /\ run[ip].k \in 1..(MAX_TOKENS + 1)
          /\ run[ip].t % ONE_TOKEN = 0 )
        => LET m == Min(run[ip].k, run[ip].t \div ONE_TOKEN)
           IN /\ run[ip].adm = m
              /\ buckets[ip].tokens = run[ip].t - m * ONE_TOKEN

\* three requests at one instant against two tokens, two admitted, while the other
\* identity's requests were handled at the same instant
C22_Witness ==
    \E ip \in IPs : \E other \in IPs \ {ip} :
        /\ buckets[ip].present
        /\ run[ip].t = 2 * ONE_TOKEN /\ run[ip].k = 3 /\ run[ip].adm = 2
        /\ run[other].k >= 2

\* the answer to the one request of a finished getTokenTransfers
TransfersAnswer == upcalls[1].rsp

\* the three checks of the validator, in order, for a response that reached it
ValidatedInOrder(rsp) ==
    IF ~rsp.envelopeOk
    THEN outcome.kind = "error" /\ outcome.message = "Invalid response format from Etherscan API"
    ELSE IF rsp.status = "0" /\ rsp.message \notin NO_ERROR_MESSAGES
    THEN outcome.kind = "error" /\ outcome.message = "Etherscan API error"
         /\ outcome.detail = rsp.message
    ELSE IF rsp.result.type # "array"
    THEN outcome.kind = "error" /\ outcome.message = "Invalid result format from Etherscan API"
    ELSE outcome.kind = "value"

C24_LimiterFirst ==
    [][\A p \in Procs :
         (reqs[p].pc = "idle" /\ reqs'[p].pc # "idle") =>
             IF reqs'[p].res.status = 429
             THEN /\ UNCHANGED cacheVars
                  /\ reqs'[p].pc = "done" /\ reqs'[p].upstream = 0
                  /\ \E ip \in IPs : Refilled(ip) < ONE_TOKEN /\ resp'[ip].status = "429"
             ELSE \E ip \in IPs :
                     /\ Refilled(ip) >= ONE_TOKEN
                     /\ buckets'[ip].present /\ buckets'[ip].lastRefill = now
                     /\ buckets'[ip].tokens = Refilled(ip) - ONE_TOKEN
                     /\ \A o \in IPs \ {ip} : buckets'[o] = buckets[o]]_vars

\* a request is rejected while the entry it asks for is in the cache, the last cache
\* call being the hit of an earlier request
C24_Witness ==
    \E p \in Procs :
        /\ reqs[p].pc = "done" /\ reqs[p].res.status = 429
        /\ Validate(reqs[p].raw) = ""
        /\ nodeCache[cacheKey(Parsed(reqs[p].raw))].present
        /\ lastRet.op = "get" /\ ~lastRet.result.isNull

C28_PendingIffNoBlock ==
    (pc = "tx_done" /\ outcome.kind = "value") =>
        (outcome.value.status = "pending" <=> outcome.value.blockNumber.isNull)

\* C27: the tokens of every bucket are at least 0 in every reachable state, for every
\* sequence of requests and every sequence of clock values the limiter reads.
C27_TokensNonNegative ==
    \A ip \in IPs : buckets[ip].tokens >= 0

\* C26: over any interval of T seconds the limiter admits at most N + R * T requests
\* of one identity, N the capacity and R the refill rate, whenever the requests are
\* made and whether or not buckets are swept in between.
C26_AdmittedBounded ==
    win.open => win.count * WINDOW_MS <= FULL + (now - win.start) * MAX_TOKENS

\* the bound is met: the capacity and one refilled token admitted within an interval of
\* 1/R seconds
C26_Witness ==
    /\ win.open /\ now - win.start = WINDOW_MS \div MAX_TOKENS
    /\ win.count = MAX_TOKENS + 1

\* C30: the sweep changes no admission decision. Every bucket it has removed had been
\* idle for more than an hour and, had it been kept, would be refilled to the full
\* capacity at its next request; the limiter decides every request as the same limiter
\* that never removes a bucket does, and the buckets it holds are those of that limiter.
C30_SweepNeutral ==
    \A ip \in IPs :
        /\ resp[ip].status = kept[ip].status
        /\ buckets[ip].present => buckets[ip] = kept[ip].b
        /\ (~buckets[ip].present /\ kept[ip].b.present) =>
              /\ now - kept[ip].b.lastRefill > ONE_HOUR
              /\ refillBucket(kept[ip].b).tokens = FULL

\* the sweep has removed the bucket of an identity whose last request was rejected
C30_Witness ==
    \E ip \in IPs :
        /\ ~buckets[ip].present /\ kept[ip].b.present
        /\ kept[ip].b.tokens < ONE_TOKEN /\ resp[ip].status = "429"

\* C29: when no call of the external store fails, once every one of a group of
\* concurrent set calls on a key has returned, the external and the local store hold
\* the same value for the key, that of one of the calls, however the calls interleave.
C29_StoresAgreeAfterSets ==
    \A k \in Keys :
        (redisQueue = <<>> /\ lastDone[k].kind = "set") =>
            /\ redisStore[k].present /\ nodeCache[k].present
            /\ SameValue(JSONparse(redisStore[k].val), nodeCache[k].val)
            /\ nodeCache[k].val = lastDone[k].val

\* the call that returned last was made while another set of its key was under way,
\* both have returned and both stores hold the key
C29_Witness ==
    \E k \in Keys :
        /\ redisQueue = <<>> /\ lastDone[k].kind = "set"
        /\ lastRet.op = "set" /\ lastRet.key = k /\ ~lastRet.quiet
        /\ RedisLive(redisStore[k]) /\ NodeLive(nodeCache[k])

====
